---- MODULE Spec2Model ----
(***************************************************************************)
(* Two-stage PDF document classifier: the pattern classifier               *)
(* (initial_document_classifier.py), the visual classifier                 *)
(* (advanced_document_classifier.py) and the /classify handler (main.py).  *)
(*                                                                         *)
(* A text is a sequence of characters, a character a one-character string. *)
(* Regular expressions are data (sequences of items) interpreted by Match  *)
(* with the priority order of Python's backtracking matcher.               *)
(***************************************************************************)
EXTENDS Integers, Sequences, FiniteSets, TLC

VARIABLES
    initial_classifier,   \* main.py:11, the shared InitialDocumentClassifier instance
    advanced_classifier,  \* main.py:12, the shared AdvancedDocumentClassifier instance
    pc,                   \* position of the request in flight
    doc,                  \* the uploaded bytes of the request in flight
    initial_result,       \* main.py:29, result of the pattern classifier
    advanced_result,      \* main.py:40/47, latest result of the visual classifier
    document_type,        \* main.py:30/41/48
    year,                 \* main.py:31/49
    response,             \* main.py:51/55, what the handler returned
    calls,                \* the sub-operations run for this request, in order
    file_pos,             \* read position of the upload: "start" or "end"
    memo,                 \* the first request served: its bytes and response
    served,               \* number of requests answered
    fn                    \* last direct call of a pattern-classifier function

vars == <<initial_classifier, advanced_classifier, pc, doc, initial_result,
          advanced_result, document_type, year, response, calls, file_pos,
          memo, served, fn>>

-----------------------------------------------------------------------------
(* Characters *)

Digits == {"0", "1", "2", "3", "4", "5", "6", "7", "8", "9"}
UpperCase == <<"A", "B", "C", "D", "E", "F", "G", "H", "I", "J", "K", "L", "M", "N", "O", "P", "Q", "R", "S", "T", "U", "V", "W", "X", "Y", "Z">>
LowerCase == <<"a", "b", "c", "d", "e", "f", "g", "h", "i", "j", "k", "l", "m", "n", "o", "p", "q", "r", "s", "t", "u", "v", "w", "x", "y", "z">>
UpperSet == {UpperCase[i] : i \in 1..Len(UpperCase)}
LowerSet == {LowerCase[i] : i \in 1..Len(LowerCase)}
Whitespace == {" ", "\t", "\n", "\r"}

\* The characters of the model in code-point order (str comparison, max()).
AsciiOrder == <<"\\", "t", "\n", " ", "'", "(", ")", "-", ".", "/", "0", "1", "2", "3", "4", "5", "6", "7", "8", "9", "A", "B", "C", "D", "E", "F", "G", "H", "I", "J", "K", "L", "M", "N", "O", "P", "Q", "R", "S", "T", "U", "V", "W", "X", "Y", "Z", "a", "b", "c", "d", "e", "f", "g", "h", "i", "j", "k", "l", "m", "n", "o", "p", "q", "r", "s", "t", "u", "v", "w", "x", "y", "z">>
Ord(c) == CHOOSE i \in 1..Len(AsciiOrder) : AsciiOrder[i] = c

\* re.IGNORECASE compares letters without regard to case.
Fold(c) == IF c \in UpperSet
           THEN LowerCase[CHOOSE i \in 1..Len(UpperCase) : UpperCase[i] = c]
           ELSE c

\* Character classes of the patterns: \s, \d, ".", [12], [09], [0-9].
ClassHas(cls, c) ==
    CASE cls = "s" -> c \in Whitespace
      [] cls = "d" -> c \in Digits
      [] cls = "dot" -> c # "\n"
      [] cls = "12" -> c \in {"1", "2"}
      [] cls = "09" -> c \in {"0", "9"}
      [] cls = "0-9" -> c \in Digits

IsWordChar(c) == c \in Digits \/ c \in UpperSet \/ c \in LowerSet \/ c = "_"

Min(S) == CHOOSE x \in S : \A y \in S : x <= y
Max(S) == 0 - Min({0 - x : x \in S})

-----------------------------------------------------------------------------
(* Python str operations *)

\* lit in text
Contains(text, lit) ==
    \E i \in 1..(Len(text) - Len(lit) + 1) :
        \A j \in 1..Len(lit) : text[i + j - 1] = lit[j]

\* text[:n]
Prefix(text, n) == SubSeq(text, 1, IF n < Len(text) THEN n ELSE Len(text))

\* text.strip()
Strip(text) ==
    LET keep == {i \in 1..Len(text) : text[i] \notin Whitespace}
    IN  IF keep = {} THEN <<>> ELSE SubSeq(text, Min(keep), Max(keep))

\* a < b on str: lexicographic by code point, a proper prefix is smaller
StrLess(a, b) ==
    LET n == IF Len(a) < Len(b) THEN Len(a) ELSE Len(b)
        diff == {i \in 1..n : a[i] # b[i]}
    IN  IF diff = {} THEN Len(a) < Len(b)
        ELSE Ord(a[Min(diff)]) < Ord(b[Min(diff)])

\* max(list) on a non-empty list of str: the first of the largest elements
StrMax(list) ==
    list[Min({i \in 1..Len(list) : \A j \in 1..Len(list) : ~StrLess(list[i], list[j])})]

\* None; no text equals it, every text being a sequence of one-character strings
None == <<"None">>
\* truth value of an Optional[str]
Truthy(v) == v # None /\ v # <<>>

-----------------------------------------------------------------------------
(* Regular expressions *)

Lit(s) == [t |-> "str", s |-> s]               \* literal characters
Plus(cls) == [t |-> "plus", cls |-> cls]        \* cls+   greedy
Star(cls) == [t |-> "star", cls |-> cls]        \* cls*   greedy
Lazy(cls) == [t |-> "lazy", cls |-> cls]        \* cls*?  lazy
Rep(cls, n) == [t |-> "rep", cls |-> cls, n |-> n]  \* cls{n}
Opt(s) == [t |-> "opt", s |-> s]                \* (literal)?  greedy
Alt(alts) == [t |-> "alt", alts |-> alts]       \* (?:a|b), in order
WordB == [t |-> "b"]                            \* \b
Open == [t |-> "open"]                          \* ( of group 1
Close == [t |-> "close"]                        \* ) of group 1

NoMatch == [ok |-> FALSE, end |-> 0, gs |-> 0, ge |-> 0]

LitAt(text, pos, s, ic) ==
    /\ pos + Len(s) - 1 <= Len(text)
    /\ \A j \in 1..Len(s) :
          IF ic THEN Fold(text[pos + j - 1]) = Fold(s[j])
                ELSE text[pos + j - 1] = s[j]

\* number of consecutive characters of cls from pos on
Run(text, pos, cls) ==
    LET bad == {i \in pos..Len(text) : ~ClassHas(cls, text[i])}
    IN  IF bad = {} THEN Len(text) - pos + 1 ELSE Min(bad) - pos

\* \b at pos: between text[pos-1] and text[pos]
Boundary(text, pos) ==
    LET before == pos > 1 /\ pos - 1 <= Len(text) /\ IsWordChar(text[pos - 1])
        after == pos >= 1 /\ pos <= Len(text) /\ IsWordChar(text[pos])
    IN  before # after

\* The one element of a singleton set. The matcher binds each intermediate
\* result once, as the element of a singleton, and then picks from it.
Only(S) == CHOOSE x \in S : TRUE

\* Of the tries (each [n, r]: a choice n and the match r of the rest after it)
\* the match of the first successful try in priority order: the smallest n
\* when ascending, the largest otherwise.
FirstOf(tries, ascending) ==
    Only({IF ok = {} THEN NoMatch
          ELSE (CHOOSE x \in ok :
                  \A y \in ok : IF ascending THEN x.n <= y.n ELSE x.n >= y.n).r :
            ok \in {{x \in tries : x.r.ok}}})

RECURSIVE Match(_, _, _, _, _, _)
\* The first way, in the matcher's priority order, in which items k.. of re
\* match text from pos on; g is <<start, end>> of group 1 so far.
Match(re, k, text, ic, pos, g) ==
    IF k > Len(re)
    THEN [ok |-> TRUE, end |-> pos, gs |-> g[1], ge |-> g[2]]
    ELSE
      LET it == re[k]
          rest(p) == Match(re, k + 1, text, ic, p, g)
      IN
      CASE it.t = "str" ->
             IF LitAt(text, pos, it.s, ic) THEN rest(pos + Len(it.s)) ELSE NoMatch
        [] it.t = "rep" ->
             IF /\ pos + it.n - 1 <= Len(text)
                /\ \A j \in 0..(it.n - 1) : ClassHas(it.cls, text[pos + j])
             THEN rest(pos + it.n) ELSE NoMatch
        [] it.t = "plus" ->
             FirstOf({[n |-> n, r |-> rest(pos + n)] :
                        n \in 1..Run(text, pos, it.cls)}, FALSE)
        [] it.t = "star" ->
             FirstOf({[n |-> n, r |-> rest(pos + n)] :
                        n \in 0..Run(text, pos, it.cls)}, FALSE)
        [] it.t = "lazy" ->
             FirstOf({[n |-> n, r |-> rest(pos + n)] :
                        n \in 0..Run(text, pos, it.cls)}, TRUE)
        [] it.t = "opt" ->
             FirstOf({[n |-> 1, r |-> IF LitAt(text, pos, it.s, ic)
                                      THEN rest(pos + Len(it.s)) ELSE NoMatch],
                      [n |-> 2, r |-> rest(pos)]}, TRUE)
        [] it.t = "alt" ->
             FirstOf({[n |-> a, r |-> IF LitAt(text, pos, it.alts[a], ic)
                                      THEN rest(pos + Len(it.alts[a])) ELSE NoMatch] :
                        a \in 1..Len(it.alts)}, TRUE)
        [] it.t = "b" ->
             IF Boundary(text, pos) THEN rest(pos) ELSE NoMatch
        [] it.t = "open" -> Match(re, k + 1, text, ic, pos, <<pos, g[2]>>)
        [] it.t = "close" -> Match(re, k + 1, text, ic, pos, <<g[1], pos>>)

\* The leftmost match of re in text that starts at or after from:
\* [ok, start, end, gs, ge], the end positions exclusive.
SearchFrom(re, text, ic, from) ==
    FirstOf({[n |-> s,
              r |-> Only({[ok |-> m.ok, start |-> s, end |-> m.end,
                           gs |-> m.gs, ge |-> m.ge] :
                            m \in {Match(re, 1, text, ic, s, <<0, 0>>)}})] :
               s \in from..(Len(text) + 1)}, TRUE)

\* re.search(re, text) and re.search(re, text, re.IGNORECASE)
Search(re, text) == SearchFrom(re, text, FALSE, 1)
SearchIC(re, text) == SearchFrom(re, text, TRUE, 1)

\* match.group(1), match.group(0)
Group1(text, m) == SubSeq(text, m.gs, m.ge - 1)
Group0(text, m) == SubSeq(text, m.start, m.end - 1)

RECURSIVE FindAllFrom(_, _, _)
\* re.findall(re, text) for a pattern with one group: the list of what group 1
\* captured in each of the non-overlapping matches, left to right.
FindAllFrom(re, text, from) ==
    Only({IF ~m.ok THEN <<>>
          ELSE <<Group1(text, m)>>
               \o FindAllFrom(re, text, IF m.end > m.start THEN m.end ELSE m.end + 1) :
            m \in {SearchFrom(re, text, FALSE, from)}})
FindAll(re, text) == FindAllFrom(re, text, 1)

-----------------------------------------------------------------------------
(* InitialDocumentClassifier: the pattern classifier *)

S1 == Plus("s")

\* self.direct_patterns, in the dict's insertion order: the source text of
\* each regular expression
DirectPatterns == <<
    [doc_type |-> "W2",
     patterns |-> <<"W-?2\\s+Wage\\s+and\\s+Tax\\s+Statement",
                    "\\bForm\\s+W-?2\\b">>],
    [doc_type |-> "1040",
     patterns |-> <<"Form\\s+1040\\s+.*?Individual\\s+Income\\s+Tax\\s+Return",
                    "Form\\s+1040\\s+U\\.S\\.\\s+Individual\\s+Income\\s+Tax\\s+Return",
                    "1040.*U\\.S\\.\\s+Individual\\s+Income\\s+Tax\\s+Return">>],
    [doc_type |-> "1099",
     patterns |-> <<"Form\\s+1099-DIV",
                    "Form\\s+1099-INT",
                    "Dividends\\s+and\\s+Distributions",
                    "Interest\\s+Income">>],
    [doc_type |-> "ID Card",
     patterns |-> <<"ID\\s*CARD",
                    "IDCARD">>],
    [doc_type |-> "Handwritten note",
     patterns |-> <<"The\\s+Farm\\s+and\\s+Fisherman">>] >>

\* self.form_1098_patterns
Form1098Patterns == <<"Form\\s+1098\\b",
                      "Mortgage\\s+Interest\\s+Statement",
                      "RECIPIENT'S/LENDER'S">>

\* re.compile of the patterns the instance holds
Compile(pattern) ==
    CASE pattern = "W-?2\\s+Wage\\s+and\\s+Tax\\s+Statement" ->
           <<Lit(<<"W">>), Opt(<<"-">>), Lit(<<"2">>), S1, Lit(<<"W", "a", "g", "e">>), S1, Lit(<<"a", "n", "d">>), S1,
             Lit(<<"T", "a", "x">>), S1, Lit(<<"S", "t", "a", "t", "e", "m", "e", "n", "t">>)>>
      [] pattern = "\\bForm\\s+W-?2\\b" ->
           <<WordB, Lit(<<"F", "o", "r", "m">>), S1, Lit(<<"W">>), Opt(<<"-">>), Lit(<<"2">>), WordB>>
      [] pattern = "Form\\s+1040\\s+.*?Individual\\s+Income\\s+Tax\\s+Return" ->
           <<Lit(<<"F", "o", "r", "m">>), S1, Lit(<<"1", "0", "4", "0">>), S1, Lazy("dot"), Lit(<<"I", "n", "d", "i", "v", "i", "d", "u", "a", "l">>), S1,
             Lit(<<"I", "n", "c", "o", "m", "e">>), S1, Lit(<<"T", "a", "x">>), S1, Lit(<<"R", "e", "t", "u", "r", "n">>)>>
      [] pattern = "Form\\s+1040\\s+U\\.S\\.\\s+Individual\\s+Income\\s+Tax\\s+Return" ->
           <<Lit(<<"F", "o", "r", "m">>), S1, Lit(<<"1", "0", "4", "0">>), S1, Lit(<<"U", ".", "S", ".">>), S1, Lit(<<"I", "n", "d", "i", "v", "i", "d", "u", "a", "l">>), S1,
             Lit(<<"I", "n", "c", "o", "m", "e">>), S1, Lit(<<"T", "a", "x">>), S1, Lit(<<"R", "e", "t", "u", "r", "n">>)>>
      [] pattern = "1040.*U\\.S\\.\\s+Individual\\s+Income\\s+Tax\\s+Return" ->
           <<Lit(<<"1", "0", "4", "0">>), Star("dot"), Lit(<<"U", ".", "S", ".">>), S1, Lit(<<"I", "n", "d", "i", "v", "i", "d", "u", "a", "l">>), S1,
             Lit(<<"I", "n", "c", "o", "m", "e">>), S1, Lit(<<"T", "a", "x">>), S1, Lit(<<"R", "e", "t", "u", "r", "n">>)>>
      [] pattern = "Form\\s+1099-DIV" -> <<Lit(<<"F", "o", "r", "m">>), S1, Lit(<<"1", "0", "9", "9", "-", "D", "I", "V">>)>>
      [] pattern = "Form\\s+1099-INT" -> <<Lit(<<"F", "o", "r", "m">>), S1, Lit(<<"1", "0", "9", "9", "-", "I", "N", "T">>)>>
      [] pattern = "Dividends\\s+and\\s+Distributions" ->
           <<Lit(<<"D", "i", "v", "i", "d", "e", "n", "d", "s">>), S1, Lit(<<"a", "n", "d">>), S1, Lit(<<"D", "i", "s", "t", "r", "i", "b", "u", "t", "i", "o", "n", "s">>)>>
      [] pattern = "Interest\\s+Income" -> <<Lit(<<"I", "n", "t", "e", "r", "e", "s", "t">>), S1, Lit(<<"I", "n", "c", "o", "m", "e">>)>>
      [] pattern = "ID\\s*CARD" -> <<Lit(<<"I", "D">>), Star("s"), Lit(<<"C", "A", "R", "D">>)>>
      [] pattern = "IDCARD" -> <<Lit(<<"I", "D", "C", "A", "R", "D">>)>>
      [] pattern = "The\\s+Farm\\s+and\\s+Fisherman" ->
           <<Lit(<<"T", "h", "e">>), S1, Lit(<<"F", "a", "r", "m">>), S1, Lit(<<"a", "n", "d">>), S1, Lit(<<"F", "i", "s", "h", "e", "r", "m", "a", "n">>)>>
      [] pattern = "Form\\s+1098\\b" -> <<Lit(<<"F", "o", "r", "m">>), S1, Lit(<<"1", "0", "9", "8">>), WordB>>
      [] pattern = "Mortgage\\s+Interest\\s+Statement" ->
           <<Lit(<<"M", "o", "r", "t", "g", "a", "g", "e">>), S1, Lit(<<"I", "n", "t", "e", "r", "e", "s", "t">>), S1, Lit(<<"S", "t", "a", "t", "e", "m", "e", "n", "t">>)>>
      [] pattern = "RECIPIENT'S/LENDER'S" -> <<Lit(<<"R", "E", "C", "I", "P", "I", "E", "N", "T", "'", "S", "/", "L", "E", "N", "D", "E", "R", "'", "S">>)>>

\* InitialDocumentClassifier.__init__
NewInitialClassifier ==
    [direct_patterns |-> DirectPatterns, form_1098_patterns |-> Form1098Patterns]

is_form_1098(self, text) ==
    \/ Contains(text, <<"F", "o", "r", "m", " ", "1", "0", "9", "8">>) /\ Contains(text, <<"M", "o", "r", "t", "g", "a", "g", "e", " ", "I", "n", "t", "e", "r", "e", "s", "t", " ", "S", "t", "a", "t", "e", "m", "e", "n", "t">>)
    \/ Cardinality({i \in 1..Len(self.form_1098_patterns) :
                      SearchIC(Compile(self.form_1098_patterns[i]), text).ok}) >= 2

form_1040_sections == <<<<"F", "i", "l", "i", "n", "g", " ", "S", "t", "a", "t", "u", "s">>, <<"S", "t", "a", "n", "d", "a", "r", "d", " ", "D", "e", "d", "u", "c", "t", "i", "o", "n">>,
                        <<"P", "r", "e", "s", "i", "d", "e", "n", "t", "i", "a", "l", " ", "E", "l", "e", "c", "t", "i", "o", "n", " ", "C", "a", "m", "p", "a", "i", "g", "n">>, <<"D", "i", "g", "i", "t", "a", "l", " ", "A", "s", "s", "e", "t", "s">>,
                        <<"t", "a", "x", "a", "b", "l", "e", " ", "i", "n", "c", "o", "m", "e">>>>

\* InitialDocumentClassifier.is_form_1040; the variant asks for three sections
is_form_1040_three_sections(text) ==
    \/ /\ Contains(text, <<"F", "o", "r", "m", " ", "1", "0", "4", "0">>) \/ Contains(Prefix(text, 200), <<"1", "0", "4", "0">>)
       /\ \/ Contains(text, <<"U", ".", "S", ".", " ", "I", "n", "d", "i", "v", "i", "d", "u", "a", "l", " ", "I", "n", "c", "o", "m", "e", " ", "T", "a", "x", " ", "R", "e", "t", "u", "r", "n">>)
          \/ Contains(Prefix(text, 300), <<"I", "n", "d", "i", "v", "i", "d", "u", "a", "l", " ", "I", "n", "c", "o", "m", "e", " ", "T", "a", "x", " ", "R", "e", "t", "u", "r", "n">>)
    \/ Cardinality({i \in 1..Len(form_1040_sections) :
                      Contains(text, form_1040_sections[i])}) >= 3
is_form_1040(text) ==
    \/ /\ Contains(text, <<"F", "o", "r", "m", " ", "1", "0", "4", "0">>) \/ Contains(Prefix(text, 200), <<"1", "0", "4", "0">>)
       /\ \/ Contains(text, <<"U", ".", "S", ".", " ", "I", "n", "d", "i", "v", "i", "d", "u", "a", "l", " ", "I", "n", "c", "o", "m", "e", " ", "T", "a", "x", " ", "R", "e", "t", "u", "r", "n">>)
          \/ Contains(Prefix(text, 300), <<"I", "n", "d", "i", "v", "i", "d", "u", "a", "l", " ", "I", "n", "c", "o", "m", "e", " ", "T", "a", "x", " ", "R", "e", "t", "u", "r", "n">>)
    \/ Cardinality({i \in 1..Len(form_1040_sections) :
                      Contains(text, form_1040_sections[i])}) >= 2

\* The generic pattern table of determine_document_type, lines 136-146: the
\* doc_type of the first pattern, in table order, that matches and is not skipped.
\* "none" stands for the loop ending without a return.
TableScan(self, text) ==
    LET table == self.direct_patterns
        hit(d) == \E p \in 1..Len(table[d].patterns) :
                     /\ SearchIC(Compile(table[d].patterns[p]), text).ok
                     /\ ~(/\ table[d].doc_type = "W2"
                          /\ Contains(text, <<"U", ".", "S", ".", " ", "I", "n", "d", "i", "v", "i", "d", "u", "a", "l", " ", "I", "n", "c", "o", "m", "e", " ", "T", "a", "x", " ", "R", "e", "t", "u", "r", "n">>))
    IN  Only({IF hits = {} THEN "none" ELSE table[Min(hits)].doc_type :
                hits \in {{d \in 1..Len(table) : hit(d)}}})

\* line 115: a Form 1098 is reported as "OTHER"
Form1098LabelAsForm == "1098"   \* variant: the form's own name
Form1098Label == "OTHER"

determine_document_type(self, text) ==
    IF is_form_1040(text) THEN "1040"
    ELSE IF is_form_1098(self, text) THEN Form1098Label
    ELSE IF \/ Contains(text, <<"F", "o", "r", "m", " ", "1", "0", "9", "9", "-", "I", "N", "T">>) /\ Contains(text, <<"I", "n", "t", "e", "r", "e", "s", "t", " ", "I", "n", "c", "o", "m", "e">>)
            \/ Contains(text, <<"F", "o", "r", "m", " ", "1", "0", "9", "9", "-", "D", "I", "V">>) /\ Contains(text, <<"D", "i", "v", "i", "d", "e", "n", "d", "s", " ", "a", "n", "d", " ", "D", "i", "s", "t", "r", "i", "b", "u", "t", "i", "o", "n", "s">>)
         THEN "1099"
    ELSE IF /\ Contains(text, <<"F", "o", "r", "m", " ", "W", "-", "2">>) \/ Contains(text, <<"F", "o", "r", "m", " ", "W", "2">>)
            /\ Contains(text, <<"W", "a", "g", "e", " ", "a", "n", "d", " ", "T", "a", "x", " ", "S", "t", "a", "t", "e", "m", "e", "n", "t">>)
         THEN "W2"
    ELSE IF Contains(text, <<"I", "D", "C", "A", "R", "D">>) \/ Contains(text, <<"I", "D", " ", "C", "A", "R", "D">>) THEN "ID Card"
    ELSE Only({IF found # "none" THEN found
               ELSE IF /\ Contains(text, <<"s", "o", "c", "i", "a", "l", " ", "s", "e", "c", "u", "r", "i", "t", "y">>)
                       /\ Contains(text, <<"M", "e", "d", "i", "c", "a", "r", "e", " ", "w", "a", "g", "e", "s", " ", "a", "n", "d", " ", "t", "i", "p", "s">>)
                       /\ Contains(text, <<"W", "-", "2">>)
                    THEN "W2"
               ELSE "OTHER" :
                 found \in {TableScan(self, text)}})

\* The first of the templates, in order, that matches: its group 1; else None.
RECURSIVE FirstGroup(_, _, _)
FirstGroup(templates, k, text) ==
    IF k > Len(templates) THEN None
    ELSE Only({IF m.ok THEN Group1(text, m) ELSE FirstGroup(templates, k + 1, text) :
                 m \in {Search(templates[k], text)}})

\* match.group(1) of re.search(re, text), None without a match
SearchGroup1(re, text) == FirstGroup(<<re>>, 1, text)
\* a if it is not None, else b
OrElse(a, b) == Only({IF x # None THEN x ELSE b : x \in {a}})

D4 == <<Open, Rep("d", 4), Close>>

extract_year_from_w2(text) ==
    FirstGroup(<<
        <<Lit(<<"W", "a", "g", "e">>), S1, Lit(<<"a", "n", "d">>), S1, Lit(<<"T", "a", "x">>), S1, Lit(<<"S", "t", "a", "t", "e", "m", "e", "n", "t">>), S1>> \o D4,
        <<Lit(<<"F", "o", "r", "m">>), S1, Lit(<<"W">>), Opt(<<"-">>), Lit(<<"2">>), S1>> \o D4,
        <<Lit(<<"T", "r", "e", "a", "s", "u", "r", "y">>), Lazy("dot"), Lit(<<"I", "n", "t", "e", "r", "n", "a", "l">>), S1, Lit(<<"R", "e", "v", "e", "n", "u", "e">>), S1,
          Lit(<<"S", "e", "r", "v", "i", "c", "e">>), S1>> \o D4,
        <<Lit(<<"W">>), Opt(<<"-">>), Lit(<<"2">>), S1, Lit(<<"W", "a", "g", "e">>), S1, Lit(<<"a", "n", "d">>), S1, Lit(<<"T", "a", "x">>), S1,
          Lit(<<"S", "t", "a", "t", "e", "m", "e", "n", "t">>), S1>> \o D4 \o
          <<S1, Lit(<<"D", "e", "p", "a", "r", "t", "m", "e", "n", "t">>), S1, Lit(<<"o", "f">>), S1, Lit(<<"t", "h", "e">>), S1, Lit(<<"T", "r", "e", "a", "s", "u", "r", "y">>)>>
      >>, 1, text)

CalendarYear20 == <<Lit(<<"F", "o", "r">>), S1, Lit(<<"c", "a", "l", "e", "n", "d", "a", "r">>), S1, Lit(<<"y", "e", "a", "r">>), S1, Lit(<<"2", "0">>), S1,
                    Open, Rep("d", 2), Close>>
CalendarYear == <<Lit(<<"F", "o", "r">>), S1, Lit(<<"c", "a", "l", "e", "n", "d", "a", "r">>), S1, Lit(<<"y", "e", "a", "r">>), S1>> \o D4

extract_year_from_1098(text) ==
    OrElse(SearchGroup1(<<Lit(<<"F", "o", "r", "m">>), S1, Lit(<<"1", "0", "9", "8">>), S1, Lit(<<"(", "R", "e", "v", ".">>), S1, Plus("d"),
                          Lit(<<"-">>)>> \o D4 \o <<Lit(<<")">>)>>, text),
    OrElse(Only({IF y # None THEN <<"2", "0">> \o y ELSE None :
                   y \in {SearchGroup1(CalendarYear20, text)}}),
           SearchGroup1(CalendarYear, text)))

\* lines 277-281: the fallback over the whole text
AllYearsPattern == <<WordB, Open, Alt(<<<<"1", "9">>, <<"2", "0">>>>), Close, Rep("d", 2), WordB>>
FallbackYear(text) ==
    Only({IF all_years # <<>> THEN StrMax(all_years) ELSE None :
            all_years \in {FindAll(AllYearsPattern, text)}})

\* lines 227-246: year_match, rev_match, calendar_match, calendar_match2
Year1099(text) ==
    OrElse(SearchGroup1(<<Lit(<<"F", "o", "r", "m">>), S1, Lit(<<"1", "0", "9", "9", "-">>), Alt(<<<<"I", "N", "T">>, <<"D", "I", "V">>>>),
                          Lazy("dot")>> \o D4, text),
    OrElse(SearchGroup1(<<Lit(<<"R", "e", "v", ".">>), S1, Lit(<<"J", "a", "n", "u", "a", "r", "y">>), S1>> \o D4, text),
    OrElse(SearchGroup1(CalendarYear, text),
           Only({IF y # None THEN <<"2", "0">> \o y ELSE None :
                   y \in {SearchGroup1(CalendarYear20, text)}}))))

\* lines 249-268: first_page_match, form_match, header_match, visual_match
Year1040(text) ==
    OrElse(SearchGroup1(<<Lit(<<"F", "o", "r", "m">>), S1, Lit(<<"1", "0", "4", "0">>), S1>> \o D4, Prefix(text, 1000)),
    OrElse(SearchGroup1(<<Lit(<<"F", "o", "r", "m", " ", "1", "0", "4", "0", " ", "(">>)>> \o D4 \o <<Lit(<<")">>)>>, text),
    OrElse(SearchGroup1(<<Lit(<<"1", "0", "4", "0">>), S1>> \o D4, Prefix(text, 500)),
           SearchGroup1(<<Open, Rep("12", 1), Rep("09", 1), Rep("0-9", 2), Close,
                          S1, Lit(<<"O", "M", "B", " ", "N", "o", ".">>)>>, text))))

\* lines 271-274: expiration_match
YearIDCard(text) ==
    SearchGroup1(<<Lit(<<"E", "x", "p", "i", "r", "a", "t", "i", "o", "n">>), S1, Lit(<<"D", "a", "t", "e">>), S1, Rep("d", 2), Lit(<<"/">>),
                   Rep("d", 2), Lit(<<"/">>)>> \o D4, text)

extract_year(self, text, doc_type) ==
    OrElse(IF doc_type = "W2"
           THEN Only({IF Truthy(w2_year) THEN w2_year ELSE None :
                        w2_year \in {extract_year_from_w2(text)}})
           ELSE None,
    OrElse(IF doc_type = "OTHER" /\ is_form_1098(self, text)
           THEN Only({IF Truthy(form_1098_year) THEN form_1098_year ELSE None :
                        form_1098_year \in {extract_year_from_1098(text)}})
           ELSE None,
    OrElse(CASE doc_type = "1099" -> Year1099(text)
             [] doc_type = "1040" -> Year1040(text)
             [] doc_type = "ID Card" -> YearIDCard(text)
             [] OTHER -> None,
           FallbackYear(text))))

-----------------------------------------------------------------------------
(* Uploaded documents *)

MaxFrags == 2     \* fragments of text in a document
PadLen == 300     \* length of the filler fragment

Labels == {"W2", "1040", "1099", "OTHER", "ID Card", "Handwritten note"}

\* The text of a document is a sequence of fragments; s names the fragment
\* and c holds its characters.
PageBreak == "<page break>"
Vocabulary == <<
    [s |-> "Form W-2 ", c |-> <<"F", "o", "r", "m", " ", "W", "-", "2", " ">>],
    [s |-> "form w-2 ", c |-> <<"f", "o", "r", "m", " ", "w", "-", "2", " ">>],
    [s |-> "Wage and Tax Statement ", c |-> <<"W", "a", "g", "e", " ", "a", "n", "d", " ", "T", "a", "x", " ", "S", "t", "a", "t", "e", "m", "e", "n", "t", " ">>],
    [s |-> "Filing Status Standard Deduction ", c |-> <<"F", "i", "l", "i", "n", "g", " ", "S", "t", "a", "t", "u", "s", " ", "S", "t", "a", "n", "d", "a", "r", "d", " ", "D", "e", "d", "u", "c", "t", "i", "o", "n", " ">>],
    [s |-> "Form 1040 ", c |-> <<"F", "o", "r", "m", " ", "1", "0", "4", "0", " ">>],
    [s |-> "U.S. Individual Income Tax Return ", c |-> <<"U", ".", "S", ".", " ", "I", "n", "d", "i", "v", "i", "d", "u", "a", "l", " ", "I", "n", "c", "o", "m", "e", " ", "T", "a", "x", " ", "R", "e", "t", "u", "r", "n", " ">>],
    [s |-> "Form 1098 Mortgage Interest Statement ", c |-> <<"F", "o", "r", "m", " ", "1", "0", "9", "8", " ", "M", "o", "r", "t", "g", "a", "g", "e", " ", "I", "n", "t", "e", "r", "e", "s", "t", " ", "S", "t", "a", "t", "e", "m", "e", "n", "t", " ">>],
    [s |-> "For calendar year 20 21 ", c |-> <<"F", "o", "r", " ", "c", "a", "l", "e", "n", "d", "a", "r", " ", "y", "e", "a", "r", " ", "2", "0", " ", "2", "1", " ">>],
    [s |-> "Form 1099-INT Interest Income ", c |-> <<"F", "o", "r", "m", " ", "1", "0", "9", "9", "-", "I", "N", "T", " ", "I", "n", "t", "e", "r", "e", "s", "t", " ", "I", "n", "c", "o", "m", "e", " ">>],
    [s |-> "ID CARD ", c |-> <<"I", "D", " ", "C", "A", "R", "D", " ">>],
    [s |-> "id card ", c |-> <<"i", "d", " ", "c", "a", "r", "d", " ">>],
    [s |-> "Expiration Date 01/02/2030 ", c |-> <<"E", "x", "p", "i", "r", "a", "t", "i", "o", "n", " ", "D", "a", "t", "e", " ", "0", "1", "/", "0", "2", "/", "2", "0", "3", "0", " ">>],
    [s |-> "The Farm and Fisherman ", c |-> <<"T", "h", "e", " ", "F", "a", "r", "m", " ", "a", "n", "d", " ", "F", "i", "s", "h", "e", "r", "m", "a", "n", " ">>],
    [s |-> "social security Medicare wages and tips W-2 ", c |-> <<"s", "o", "c", "i", "a", "l", " ", "s", "e", "c", "u", "r", "i", "t", "y", " ", "M", "e", "d", "i", "c", "a", "r", "e", " ", "w", "a", "g", "e", "s", " ", "a", "n", "d", " ", "t", "i", "p", "s", " ", "W", "-", "2", " ">>],
    [s |-> "Department of the Treasury Internal Revenue Service ", c |-> <<"D", "e", "p", "a", "r", "t", "m", "e", "n", "t", " ", "o", "f", " ", "t", "h", "e", " ", "T", "r", "e", "a", "s", "u", "r", "y", " ", "I", "n", "t", "e", "r", "n", "a", "l", " ", "R", "e", "v", "e", "n", "u", "e", " ", "S", "e", "r", "v", "i", "c", "e", " ">>],
    [s |-> "Rev. January 2022 ", c |-> <<"R", "e", "v", ".", " ", "J", "a", "n", "u", "a", "r", "y", " ", "2", "0", "2", "2", " ">>],
    [s |-> "OMB No. ", c |-> <<"O", "M", "B", " ", "N", "o", ".", " ">>],
    [s |-> "2021", c |-> <<"2", "0", "2", "1">>],
    [s |-> "2019 ", c |-> <<"2", "0", "1", "9", " ">>],
    [s |-> "1234 ", c |-> <<"1", "2", "3", "4", " ">>],
    [s |-> "<filler>", c |-> [i \in 1..PadLen |-> "x"]],
    [s |-> PageBreak, c |-> <<>>] >>

FragNames == {Vocabulary[i].s : i \in 1..Len(Vocabulary)}
Chars(name) == Vocabulary[CHOOSE i \in 1..Len(Vocabulary) : Vocabulary[i].s = name].c
FragSeqs == UNION {[1..n -> FragNames] : n \in 0..MaxFrags}

RECURSIVE Concat(_, _)
\* the fragments' characters, each page break replaced by sep
Concat(frags, sep) ==
    IF frags = <<>> THEN <<>>
    ELSE (IF Head(frags) = PageBreak THEN sep ELSE Chars(Head(frags)))
         \o Concat(Tail(frags), sep)


\* A rasterized page: its shape and what the OpenCV feature computations
\* find in it. rot holds the two ID-card features that depend on orientation,
\* as found in the page rotated by 90 degrees.
Shapes == {[w |-> 16, h |-> 10], [w |-> 10, h |-> 10], [w |-> 10, h |-> 16]}
IdLayouts == {<<TRUE, TRUE, TRUE>>, <<TRUE, FALSE, TRUE>>, <<FALSE, FALSE, FALSE>>}
NoHand == [contours |-> 5, areas |-> 0, features |-> <<FALSE, FALSE, FALSE, FALSE>>]
Hands == {NoHand,
          [contours |-> 40, areas |-> 30, features |-> <<TRUE, TRUE, TRUE, TRUE>>],
          [contours |-> 40, areas |-> 30, features |-> <<TRUE, TRUE, FALSE, TRUE>>]}
Images ==
    {[w |-> sh.w, h |-> sh.h,
      distinct_regions |-> l[1], has_straight_lines |-> l[2], structured_layout |-> l[3],
      rot |-> [distinct_regions |-> l[1], has_straight_lines |-> rl],
      hand |-> hd, cv_ok |-> TRUE] :
        sh \in Shapes, l \in IdLayouts, rl \in BOOLEAN, hd \in Hands}
\* The page images of the model: a pixmap has at least one row and one
\* column of pixels; the rotated page's line feature varies where the rotated
\* page is looked at.
PageImages ==
    {im \in Images :
        im.rot.has_straight_lines # im.has_straight_lines => im.w < im.h}
BlankImage == CHOOSE im \in PageImages :
                 /\ im.w = 10 /\ im.h = 10 /\ ~im.structured_layout
                 /\ im.hand = NoHand

\* The uploaded bytes, as PyMuPDF decodes them. valid: fitz.open succeeds;
\* frags: the text of the pages; raster: "ok" when page 1 rasterizes to image,
\* "failed" when get_pixmap raises, "unread" while no request has rasterized
\* the bytes (the outcome is fixed the first time they are).
CorruptDoc == [valid |-> FALSE, frags |-> <<>>, raster |-> "failed", image |-> BlankImage]
NewDoc(f) == [valid |-> TRUE, frags |-> f, raster |-> "unread", image |-> BlankImage]
Rasters(d, images) ==
    IF d.raster # "unread" THEN {d}
    ELSE {[d EXCEPT !.raster = "ok", !.image = im] : im \in images}
         \cup {[d EXCEPT !.raster = "failed"]}

\* await file.read(): the bytes from the read position on
Read(d, pos) == IF pos = "start" THEN d ELSE CorruptDoc

NumPages(d) == 1 + Cardinality({i \in 1..Len(d.frags) : d.frags[i] = PageBreak})

\* InitialDocumentClassifier.extract_text_from_pdf: the pages' text, concatenated
initial_extract_text_from_pdf(d) == IF d.valid THEN Concat(d.frags, <<>>) ELSE <<>>

NOT_IMPLEMENTED == <<"N", "O", "T", " ", "I", "M", "P", "L", "E", "M", "E", "N", "T", "E", "D">>

\* InitialDocumentClassifier.classify_document
initial_classify_document(self, d) ==
    Only({Only({Only({[document_type |-> dt,
                       year |-> IF Truthy(yr) THEN yr ELSE NOT_IMPLEMENTED] :
                         yr \in {extract_year(self, text, dt)}}) :
                  dt \in {determine_document_type(self, text)}}) :
            text \in {initial_extract_text_from_pdf(d)}})

-----------------------------------------------------------------------------
(* AdvancedDocumentClassifier: the visual classifier *)

\* AdvancedDocumentClassifier.__init__
NewAdvancedClassifier ==
    [tax_form_keywords |-> <<"FORM 1099", "FORM 1040", "FORM W-2", "FORM W2",
                             "TAX RETURN", "INTERNAL REVENUE SERVICE",
                             "DEPARTMENT OF THE TREASURY", "FORM 1098">>]

\* AdvancedDocumentClassifier.extract_text_from_pdf: "\n".join of the pages' text
advanced_extract_text_from_pdf(d) == IF d.valid THEN Concat(d.frags, <<"\n">>) ELSE <<>>

\* extract_images_from_pdf: one image per page, the list so far when a page fails
extract_images_from_pdf(d) ==
    IF d.valid /\ d.raster = "ok"
    THEN [i \in 1..NumPages(d) |-> IF i = 1 THEN d.image ELSE BlankImage]
    ELSE <<>>

Count(flags) == Cardinality({i \in 1..Len(flags) : flags[i]})
\* score / 4, in hundredths
Confidence(score) == (score * 100) \div 4

\* is_id_card: <<is_id, confidence>>. w / h raises on a zero-height image
\* (line 57) and OpenCV raises on an array it cannot convert (line 62); lines
\* 97-99 turn either into (False, 0.0).
is_id_card(image) ==
    IF image.h = 0 \/ ~image.cv_ok THEN <<FALSE, 0>>
    ELSE LET aspect_score == 14 * image.h <= 10 * image.w /\ 10 * image.w <= 19 * image.h
             id_card_score == Count(<<aspect_score, image.distinct_regions,
                                      image.has_straight_lines, image.structured_layout>>)
         IN  <<id_card_score >= 3, Confidence(id_card_score)>>

\* is_handwritten: <<is_handwritten, confidence>>. OpenCV raises on an empty
\* array or one it cannot convert; lines 182-184 turn that into (False, 0.0).
is_handwritten(image) ==
    IF image.h = 0 \/ ~image.cv_ok THEN <<FALSE, 0>>
    ELSE IF image.hand.contours < 20 THEN <<FALSE, 0>>
    ELSE IF image.hand.areas = 0 THEN <<FALSE, 0>>
    ELSE LET handwriting_score == Count(image.hand.features)
         IN  <<handwriting_score >= 3, Confidence(handwriting_score)>>

\* cv2.rotate(image, cv2.ROTATE_90_CLOCKWISE)
rotate(image) ==
    [image EXCEPT !.w = image.h, !.h = image.w,
                  !.distinct_regions = image.rot.distinct_regions,
                  !.has_straight_lines = image.rot.has_straight_lines,
                  !.rot = [distinct_regions |-> image.distinct_regions,
                           has_straight_lines |-> image.has_straight_lines]]

\* AdvancedDocumentClassifier.extract_year
\* the variant returns the empty string where no year is found
advanced_extract_year_or_empty(text) ==
    LET match == Search(<<Alt(<<<<"1", "9">>, <<"2", "0">>>>), Rep("d", 2)>>, text)
    IN  IF match.ok THEN Group0(text, match) ELSE <<>>
advanced_extract_year(text) ==
    LET match == Search(<<Alt(<<<<"1", "9">>, <<"2", "0">>>>), Rep("d", 2)>>, text)
    IN  IF match.ok THEN Group0(text, match) ELSE NOT_IMPLEMENTED

TextLengthLimit == 300

\* line 210: enough text to skip the visual analysis
\* (variant: ten times the limit)
LongerThanLimitTimesTen(text_length) == text_length > TextLengthLimit * 10
HasSignificantText(text_length) == text_length > TextLengthLimit

\* line 237: both judgments hold; the ID card wins on strictly higher confidence
\* (variant: the ID card wins a tie too)
PrefersIdCardOnTie(id_confidence, handwriting_confidence) ==
    id_confidence >= handwriting_confidence
PrefersIdCard(id_confidence, handwriting_confidence) ==
    id_confidence > handwriting_confidence

\* AdvancedDocumentClassifier.classify_document on the bytes d: the dict it
\* returns and, in calls, its operations on the bytes and the images, in order.
advanced_run(self, d) ==
    LET text == advanced_extract_text_from_pdf(d)
        text_length == Len(Strip(text))
        images == extract_images_from_pdf(d)
        main_image == images[1]
        id == is_id_card(main_image)
        hw == is_handwritten(main_image)
        flipped == is_id_card(rotate(main_image))
        out(dt, cs) == [document_type |-> dt, year |-> advanced_extract_year(text),
                        calls |-> cs]
        decoded == <<"extract_text_from_pdf", "extract_images_from_pdf">>
        judged == decoded \o <<"is_id_card", "is_handwritten">>
    IN  IF HasSignificantText(text_length) THEN out("OTHER", <<"extract_text_from_pdf">>)
        ELSE IF images = <<>> THEN out("OTHER", decoded)
        ELSE IF id[1] /\ ~hw[1] THEN out("ID Card", judged)
        ELSE IF hw[1] /\ ~id[1] THEN out("Handwritten note", judged)
        ELSE IF id[1] /\ hw[1]
             THEN IF PrefersIdCard(id[2], hw[2]) THEN out("ID Card", judged)
                  ELSE out("Handwritten note", judged)
        ELSE IF main_image.h = 0
             THEN \* w / h raises at line 246; lines 259-261
                  [document_type |-> "OTHER", year |-> NOT_IMPLEMENTED, calls |-> judged]
        ELSE IF main_image.w < main_image.h
             THEN IF flipped[1]
                  THEN out("ID Card", judged \o <<"rotate", "is_id_card">>)
                  ELSE out("OTHER", judged \o <<"rotate", "is_id_card">>)
        ELSE out("OTHER", judged)

\* dict.get(key, default)
Get(dict, key, default) == IF key \in DOMAIN dict THEN dict[key] ELSE default

-----------------------------------------------------------------------------
(* main.py: the /classify handler, one request at a time *)

MaxRequests == 3   \* requests served where the first one is remembered

NoResult == [document_type |-> "", year |-> <<>>]
NoMemo == [set |-> FALSE, doc |-> CorruptDoc, response |-> NoResult]
NoCall == [op |-> "", doc_type |-> "", label |-> "", year |-> <<>>]

Init ==
    /\ initial_classifier = NewInitialClassifier
    /\ advanced_classifier = NewAdvancedClassifier
    /\ pc = "idle"
    /\ doc = CorruptDoc
    /\ initial_result = NoResult
    /\ advanced_result = NoResult
    /\ document_type = ""
    /\ year = <<>>
    /\ response = NoResult
    /\ calls = <<>>
    /\ file_pos = "start"
    /\ memo = NoMemo
    /\ served = 0
    /\ fn = NoCall

\* What a call of classify_document leaves in the instance: neither classifier
\* assigns an attribute outside __init__.
\* (variant: a call consumes the first entry of the pattern table)
initial_after_call_consuming(self) ==
    [self EXCEPT !.direct_patterns = Tail(self.direct_patterns)]
initial_after_call(self) == self
advanced_after_call(self) == self

\* lines 15-25: a request arrives with its upload; the handler may read the
\* upload once and rewinds it.
Receive(texts) ==
    /\ pc = "idle"
    /\ \E d \in {CorruptDoc} \cup {NewDoc(f) : f \in texts} : doc' = d
    /\ file_pos' = "start"
    /\ pc' = "initial"
    /\ UNCHANGED <<initial_classifier, advanced_classifier, initial_result,
                   advanced_result, document_type, year, response, calls, memo,
                   served, fn>>

\* line 34: the pattern classifier could not tell the type
\* (variant: whatever the type)
NeedsAdvancedAlways(dt) == dt \in Labels
NeedsAdvanced(dt) == dt = "OTHER"

\* lines 29-34: the pattern classifier runs on the upload
RunInitial ==
    /\ pc = "initial"
    /\ LET result == initial_classify_document(initial_classifier, Read(doc, file_pos))
       IN  /\ initial_result' = result
           /\ document_type' = Get(result, "document_type", "OTHER")
           /\ year' = Get(result, "year", NOT_IMPLEMENTED)
           /\ pc' = IF NeedsAdvanced(Get(result, "document_type", "OTHER"))
                    THEN "advanced" ELSE "return"
    /\ file_pos' = "end"
    /\ initial_classifier' = initial_after_call(initial_classifier)
    /\ calls' = calls \o <<"initial.classify_document">>
    /\ UNCHANGED <<advanced_classifier, doc, advanced_result, response, memo, served, fn>>

\* One call of advanced_classifier.classify_document after file.seek(0): the
\* bytes as decoded (their raster fixed if this call is the first to look at
\* it) and what the call returned.
AdvancedCalls(images) ==
    LET bytes == Read(doc, "start")
        blind == advanced_run(advanced_classifier, bytes)
    IN  IF "extract_images_from_pdf" \in {blind.calls[i] : i \in 1..Len(blind.calls)}
        THEN {[doc |-> d, run |-> advanced_run(advanced_classifier, d)] :
                 d \in Rasters(bytes, images)}
        ELSE {[doc |-> bytes, run |-> blind]}

\* lines 40-41: the first visual result sets document_type; year stays
\* (variant: year is taken from the visual result)
year_after_advanced_taken(result, y) == Get(result, "year", y)
year_after_advanced(result, y) == y

\* lines 34-41: the pattern classifier said "OTHER"
RunAdvanced(images) ==
    /\ pc = "advanced"
    /\ \E c \in AdvancedCalls(images) :
          /\ doc' = c.doc
          /\ advanced_result' = [document_type |-> c.run.document_type, year |-> c.run.year]
          /\ document_type' = c.run.document_type
          /\ year' = year_after_advanced(advanced_result', year)
          /\ calls' = calls \o <<"advanced.classify_document">> \o c.run.calls
          /\ pc' = IF c.run.document_type = "OTHER" THEN "advanced_again" ELSE "return"
    /\ file_pos' = "end"
    /\ advanced_classifier' = advanced_after_call(advanced_classifier)
    /\ UNCHANGED <<initial_classifier, initial_result, response, memo, served, fn>>

\* lines 44-49: the visual classifier said "OTHER" too and runs again
RunAdvancedAgain(images) ==
    /\ pc = "advanced_again"
    /\ \E c \in AdvancedCalls(images) :
          /\ doc' = c.doc
          /\ advanced_result' = [document_type |-> c.run.document_type, year |-> c.run.year]
          /\ document_type' = c.run.document_type
          /\ year' = Get(advanced_result', "year", year)
          /\ calls' = calls \o <<"advanced.classify_document">> \o c.run.calls
    /\ pc' = "return"
    /\ file_pos' = "end"
    /\ advanced_classifier' = advanced_after_call(advanced_classifier)
    /\ UNCHANGED <<initial_classifier, initial_result, response, memo, served, fn>>

\* line 51; remember: the first request served is kept in memo
Return(remember) ==
    /\ pc = "return"
    /\ response' = [document_type |-> document_type, year |-> year]
    /\ pc' = "done"
    /\ IF remember
       THEN /\ served' = served + 1
            /\ memo' = IF memo.set THEN memo
                       ELSE [set |-> TRUE, doc |-> doc, response |-> response']
       ELSE UNCHANGED <<memo, served>>
    /\ UNCHANGED <<initial_classifier, advanced_classifier, doc, initial_result,
                   advanced_result, document_type, year, calls, file_pos, fn>>

\* the handler is ready for the next request; nothing of the last one is kept
NextRequest(limit) ==
    /\ pc = "done"
    /\ served < limit
    /\ pc' = "idle"
    /\ doc' = CorruptDoc
    /\ initial_result' = NoResult
    /\ advanced_result' = NoResult
    /\ document_type' = ""
    /\ year' = <<>>
    /\ response' = NoResult
    /\ calls' = <<>>
    /\ file_pos' = "start"
    /\ UNCHANGED <<initial_classifier, advanced_classifier, memo, served, fn>>

Next ==
    \/ Receive(FragSeqs)
    \/ RunInitial
    \/ RunAdvanced(PageImages)
    \/ RunAdvancedAgain(PageImages)
    \/ Return(FALSE)
    \/ NextRequest(1)

Spec == Init /\ [][Next]_vars

-----------------------------------------------------------------------------
(* The pattern classifier's functions, called directly on a text *)

InitText ==
    /\ initial_classifier = NewInitialClassifier
    /\ advanced_classifier = NewAdvancedClassifier
    /\ pc = "call"
    /\ doc \in {NewDoc(f) : f \in FragSeqs}
    /\ initial_result = NoResult
    /\ advanced_result = NoResult
    /\ document_type = ""
    /\ year = <<>>
    /\ response = NoResult
    /\ calls = <<>>
    /\ file_pos = "start"
    /\ memo = NoMemo
    /\ served = 0
    /\ fn = NoCall

TextOf(d) == Concat(d.frags, <<>>)

CallDetermineType ==
    /\ pc = "call"
    /\ fn' = [op |-> "determine_document_type", doc_type |-> "",
              label |-> determine_document_type(initial_classifier, TextOf(doc)),
              year |-> <<>>]
    /\ UNCHANGED <<initial_classifier, advanced_classifier, pc, doc, initial_result,
                   advanced_result, document_type, year, response, calls, file_pos,
                   memo, served>>

CallExtractYear(dt) ==
    /\ pc = "call"
    /\ fn' = [op |-> "extract_year", doc_type |-> dt, label |-> "",
              year |-> extract_year(initial_classifier, TextOf(doc), dt)]
    /\ UNCHANGED <<initial_classifier, advanced_classifier, pc, doc, initial_result,
                   advanced_result, document_type, year, response, calls, file_pos,
                   memo, served>>

NextText ==
    \/ CallDetermineType
    \/ \E dt \in Labels : CallExtractYear(dt)

SpecText == InitText /\ [][NextText]_vars

-----------------------------------------------------------------------------
(* Several requests on the shared instances, the first one remembered *)

ReuseTexts == {<<>>, <<"form w-2 ">>, <<"id card ">>, <<"The Farm and Fisherman ">>,
               <<"Form 1098 Mortgage Interest Statement ">>, <<"2021">>,
               <<"Form 1099-INT Interest Income ">>, <<"<filler>", "2019 ">>}
ReuseImages == {im \in PageImages :
                  /\ im.w > im.h
                  /\ im.distinct_regions = im.has_straight_lines
                  /\ Count(im.hand.features) # 3}

NextReuse ==
    \/ Receive(ReuseTexts)
    \/ RunInitial
    \/ RunAdvanced(ReuseImages)
    \/ RunAdvancedAgain(ReuseImages)
    \/ Return(TRUE)
    \/ NextRequest(MaxRequests)

SpecReuse == Init /\ [][NextReuse]_vars

-----------------------------------------------------------------------------
(* The visual classifier's classify_document, called directly on bytes whose
   first page image may be one OpenCV cannot work on *)

\* an array OpenCV cannot convert, and an array without rows
MalformedImages == {[im EXCEPT !.cv_ok = FALSE] : im \in PageImages}
ZeroHeightImages == {[im EXCEPT !.h = 0] : im \in PageImages}
VisualImages == PageImages \cup MalformedImages \cup ZeroHeightImages
VisualTexts == {f \in FragSeqs : Len(f) <= 1}

InitVisual ==
    /\ initial_classifier = NewInitialClassifier
    /\ advanced_classifier = NewAdvancedClassifier
    /\ pc = "call"
    /\ doc \in {[NewDoc(f) EXCEPT !.raster = "ok", !.image = im] :
                   f \in VisualTexts, im \in VisualImages}
    /\ initial_result = NoResult
    /\ advanced_result = NoResult
    /\ document_type = ""
    /\ year = <<>>
    /\ response = NoResult
    /\ calls = <<>>
    /\ file_pos = "start"
    /\ memo = NoMemo
    /\ served = 0
    /\ fn = NoCall

CallAdvancedClassify ==
    /\ pc = "call"
    /\ LET run == advanced_run(advanced_classifier, Read(doc, file_pos))
       IN  /\ advanced_result' = [document_type |-> run.document_type, year |-> run.year]
           /\ calls' = run.calls
    /\ pc' = "called"
    /\ file_pos' = "end"
    /\ advanced_classifier' = advanced_after_call(advanced_classifier)
    /\ UNCHANGED <<initial_classifier, doc, initial_result, document_type, year,
                   response, memo, served, fn>>

NextVisual == CallAdvancedClassify

SpecVisual == InitVisual /\ [][NextVisual]_vars

-----------------------------------------------------------------------------
(* Properties *)

\* a string of exactly four digits; one that begins with 19 or 20
FourDigits(s) == Len(s) = 4 /\ \A i \in 1..4 : s[i] \in Digits
YearLike(s) == FourDigits(s) /\ SubSeq(s, 1, 2) \in {<<"1", "9">>, <<"2", "0">>}

CallSet == {calls[i] : i \in 1..Len(calls)}
\* the operations of the latest call of the visual classifier, in order
LastAdvanced ==
    LET marks == {i \in 1..Len(calls) : calls[i] = "advanced.classify_document"}
    IN  IF marks = {} THEN <<>> ELSE SubSeq(calls, Max(marks) + 1, Len(calls))
LastAdvancedSet == {LastAdvanced[i] : i \in 1..Len(LastAdvanced)}

\* the first 19xx/20xx token of a text, else the sentinel
FirstYear(text) ==
    LET hits == {i \in 1..(Len(text) - 3) :
                    /\ SubSeq(text, i, i + 1) \in {<<"1", "9">>, <<"2", "0">>}
                    /\ text[i + 2] \in Digits /\ text[i + 3] \in Digits}
    IN  IF hits = {} THEN NOT_IMPLEMENTED ELSE SubSeq(text, Min(hits), Min(hits) + 3)

\* C1: every request served returns a result whose document_type is one of
\* the six labels and whose year is a 4-digit string or the sentinel.
C1_WellFormedResult ==
    pc = "done" =>
        /\ response.document_type \in Labels
        /\ FourDigits(response.year) \/ response.year = NOT_IMPLEMENTED

\* C2: extract_year of the pattern classifier returns, for every text and
\* every label, None or a string of exactly 4 digits that begins with 19 or 20.
C2_YearShape ==
    fn.op = "extract_year" => fn.year = None \/ YearLike(fn.year)

\* C3: determine_document_type returns, for every text, one of the six labels,
\* whichever rule produces it.
C3_LabelEnumerated ==
    fn.op = "determine_document_type" => fn.label \in Labels
C3_Witness ==
    /\ fn.op = "determine_document_type"
    /\ fn.label = "Handwritten note"
    /\ ~Contains(TextOf(doc), <<"I", "D", " ", "C", "A", "R", "D">>)

\* C4: the pattern classifier runs first; the visual classifier is called only
\* when the pattern classifier's label is "OTHER"; with any other label no
\* image is decoded, no visual judgment is run, and the result returned is the
\* pattern classifier's (document_type, year).
C4_PatternFirst ==
    /\ calls # <<>> => calls[1] = "initial.classify_document"
    /\ "advanced.classify_document" \in CallSet => initial_result.document_type = "OTHER"
    /\ pc \in {"return", "done"} /\ initial_result.document_type # "OTHER"
          => /\ calls = <<"initial.classify_document">>
             /\ doc.raster = "unread"
             /\ document_type = initial_result.document_type
             /\ year = initial_result.year
    /\ pc = "done" /\ initial_result.document_type # "OTHER"
          => response = initial_result
C4_Witness ==
    /\ pc = "done"
    /\ initial_result.document_type = "W2"
    /\ response = initial_result
    /\ YearLike(response.year)

\* C5: when both classifiers say "OTHER" and the visual classifier found no
\* year (its year is the sentinel) while the pattern classifier had found one,
\* the year returned is the pattern classifier's.
C5_VisualYearOnlyWhenFound ==
    /\ pc = "done"
    /\ initial_result.document_type = "OTHER"
    /\ advanced_result.document_type = "OTHER"
    /\ advanced_result.year = NOT_IMPLEMENTED
    /\ initial_result.year # NOT_IMPLEMENTED
    => response.year = initial_result.year

\* C6: the visual classifier's label follows from the two judgments on the
\* first page image: ID only gives "ID Card"; handwriting only gives
\* "Handwritten note"; both give "ID Card" iff the ID confidence is strictly
\* higher, else "Handwritten note"; neither gives "ID Card" only for a portrait
\* image whose rotation is judged an ID card, else "OTHER". Handwriting is
\* judged once, never on the rotated image.
C6_DecisionTable ==
    LET images == extract_images_from_pdf(doc)
        id == is_id_card(images[1])
        hw == is_handwritten(images[1])
        label == advanced_result.document_type
        portrait == images[1].w < images[1].h
    IN  "is_id_card" \in LastAdvancedSet =>
          /\ id[1] /\ ~hw[1] => label = "ID Card"
          /\ hw[1] /\ ~id[1] => label = "Handwritten note"
          /\ id[1] /\ hw[1]
                => label = IF id[2] > hw[2] THEN "ID Card" ELSE "Handwritten note"
          /\ ~id[1] /\ ~hw[1]
                => label = IF portrait /\ is_id_card(rotate(images[1]))[1]
                           THEN "ID Card" ELSE "OTHER"
          /\ Cardinality({i \in 1..Len(LastAdvanced) :
                             LastAdvanced[i] = "is_handwritten"}) = 1
          /\ \A i \in 1..Len(LastAdvanced) :
                LastAdvanced[i] = "rotate"
                   => /\ i = Len(LastAdvanced) - 1
                      /\ LastAdvanced[i + 1] = "is_id_card"
C6_Witness ==
    LET images == extract_images_from_pdf(doc)
        id == is_id_card(images[1])
        hw == is_handwritten(images[1])
    IN  /\ "is_id_card" \in LastAdvancedSet
        /\ id[1] /\ hw[1] /\ id[2] = hw[2]
        /\ advanced_result.document_type = "Handwritten note"

\* C7: the visual classifier decodes the text before anything else; with more
\* than 300 characters of stripped text it returns "OTHER" with the first
\* 19xx/20xx token of the text (else the sentinel) as year, decodes no image
\* and runs no judgment; images are decoded only with at most 300 characters.
C7_LongTextShortCircuit ==
    LET text == advanced_extract_text_from_pdf(doc)
        long == Len(Strip(text)) > TextLengthLimit
    IN  "advanced.classify_document" \in CallSet =>
          /\ LastAdvanced # <<>> /\ LastAdvanced[1] = "extract_text_from_pdf"
          /\ long => /\ LastAdvanced = <<"extract_text_from_pdf">>
                     /\ doc.raster = "unread"
                     /\ advanced_result =
                           [document_type |-> "OTHER", year |-> FirstYear(text)]
          /\ "extract_images_from_pdf" \in LastAdvancedSet => ~long
C7_Witness ==
    /\ pc = "done"
    /\ Len(Strip(advanced_extract_text_from_pdf(doc))) > TextLengthLimit
    /\ LastAdvanced = <<"extract_text_from_pdf">>
    /\ YearLike(advanced_result.year)

\* C8: bytes that decode to the empty text and to no page image are answered
\* with document_type "OTHER" and the sentinel as year.
C8_DecodeFailure ==
    /\ pc = "done"
    /\ initial_extract_text_from_pdf(doc) = <<>>
    /\ advanced_extract_text_from_pdf(doc) = <<>>
    /\ doc.raster # "unread"
    /\ extract_images_from_pdf(doc) = <<>>
    => response = [document_type |-> "OTHER", year |-> NOT_IMPLEMENTED]
C8_Witness ==
    /\ pc = "done"
    /\ doc = CorruptDoc
    /\ "extract_images_from_pdf" \in LastAdvancedSet
    /\ response = [document_type |-> "OTHER", year |-> NOT_IMPLEMENTED]

\* the same bytes: an upload whose pages were never rasterized is the same as
\* one with the same text, whatever its raster
SameBytes(a, b) ==
    /\ a.valid = b.valid
    /\ a.frags = b.frags
    /\ \/ a.raster = "unread"
       \/ b.raster = "unread"
       \/ a.raster = b.raster /\ a.image = b.image

\* C9: a request with the same bytes as the first request served gets the
\* same (document_type, year), whatever was served in between, and the shared
\* classifier instances stay as constructed.
C9_Idempotent ==
    /\ initial_classifier = NewInitialClassifier
    /\ advanced_classifier = NewAdvancedClassifier
    /\ pc = "done" /\ memo.set /\ SameBytes(doc, memo.doc)
          => response = memo.response
C9_Witness ==
    /\ pc = "done"
    /\ served = MaxRequests
    /\ memo.set /\ SameBytes(doc, memo.doc)
    /\ response = memo.response
    /\ response.document_type = "W2"

\* the text holds "Form W-2" or "Form W2" together with "Wage and Tax Statement"
FullW2Pair(text) ==
    /\ Contains(text, <<"F", "o", "r", "m", " ", "W", "-", "2">>) \/ Contains(text, <<"F", "o", "r", "m", " ", "W", "2">>)
    /\ Contains(text, <<"W", "a", "g", "e", " ", "a", "n", "d", " ", "T", "a", "x", " ", "S", "t", "a", "t", "e", "m", "e", "n", "t">>)
\* at least 2 of the 5 section headers, "W-2", and not the full W2 phrase pair
SectionsAndW2(text) ==
    /\ Cardinality({i \in 1..Len(form_1040_sections) :
                       Contains(text, form_1040_sections[i])}) >= 2
    /\ Contains(text, <<"W", "-", "2">>)
    /\ ~FullW2Pair(text)

\* C10: a text with at least 2 of the 5 section headers of Form 1040 and a
\* literal "W-2", but without the full W2 phrase pair, is labelled "1040".
C10_Form1040First ==
    fn.op = "determine_document_type" /\ SectionsAndW2(TextOf(doc))
        => fn.label = "1040"
C10_Witness ==
    /\ fn.op = "determine_document_type"
    /\ SectionsAndW2(TextOf(doc))
    /\ Contains(TextOf(doc), <<"F", "o", "r", "m", " ", "W", "-", "2">>)
    /\ fn.label = "1040"

\* the year of the label's own templates, None where none matches
TemplateYear(self, text, doc_type) ==
    CASE doc_type = "W2" -> extract_year_from_w2(text)
      [] doc_type = "OTHER" /\ is_form_1098(self, text) -> extract_year_from_1098(text)
      [] doc_type = "1099" -> Year1099(text)
      [] doc_type = "1040" -> Year1040(text)
      [] doc_type = "ID Card" -> YearIDCard(text)
      [] OTHER -> None
\* where the 4-digit tokens of a text that begin with 19 or 20 start
YearTokens(text) ==
    {i \in 1..(Len(text) - 3) :
        /\ YearLike(SubSeq(text, i, i + 3))
        /\ i = 1 \/ ~IsWordChar(text[i - 1])
        /\ i + 3 = Len(text) \/ ~IsWordChar(text[i + 4])}
DigitValue(c) == CHOOSE n \in 0..9 : <<"0", "1", "2", "3", "4", "5", "6", "7", "8", "9">>[n + 1] = c
TokenValue(t) == DigitValue(t[1]) * 1000 + DigitValue(t[2]) * 100
                 + DigitValue(t[3]) * 10 + DigitValue(t[4])
\* the greatest such token, None where there is none
MaxYearToken(text) ==
    IF YearTokens(text) = {} THEN None
    ELSE LET best == CHOOSE i \in YearTokens(text) :
                        \A j \in YearTokens(text) :
                           TokenValue(SubSeq(text, j, j + 3))
                              <= TokenValue(SubSeq(text, i, i + 3))
         IN  SubSeq(text, best, best + 3)

\* C11: where no template of the label matches, extract_year of the pattern
\* classifier returns the greatest 4-digit token of the text that begins with
\* 19 or 20, and None where the text has no such token.
C11_FallbackMaxYear ==
    fn.op = "extract_year"
       /\ ~Truthy(TemplateYear(initial_classifier, TextOf(doc), fn.doc_type))
    => fn.year = MaxYearToken(TextOf(doc))

\* the first page image is one a judgment's feature computation fails on
FeatureFailure(d) == d.image.h = 0 \/ ~d.image.cv_ok

\* C12: where the feature computation fails on the first page image, the
\* visual classifier's classify_document still returns "OTHER" with the first
\* 19xx/20xx token of the text (else the sentinel) as year.
C12_FailureFallsToDefault ==
    pc = "called" /\ FeatureFailure(doc) /\ "is_id_card" \in CallSet
    => advanced_result = [document_type |-> "OTHER",
                          year |-> FirstYear(advanced_extract_text_from_pdf(doc))]

=============================================================================
